---- MODULE Spec2Model ----
(***************************************************************************)
(* Model of chenziliang/descartes.legacy:                                  *)
(*   sources/snow/snow_data_reader.go  (SnowDataReader: the checkpoint     *)
(*       cursor and the deduplication of a page against it)                *)
(*   services/collect_service.go       (CollectService: task listeners,    *)
(*       job cache, heartbeats, Start/Stop)                                *)
(*                                                                         *)
(* Encoding of timestamps.  A timestamp is a string in the source.  It is  *)
(* an integer here: n >= 0 is the string that timeTemplate prints for the  *)
(* instant n seconds after the epoch; EmptyTime is the empty string and    *)
(* BadTime a non-empty string that timeTemplate does not parse.  The code  *)
(* compares timestamps for equality only, except in TimeParse.             *)
(*                                                                         *)
(* A record of a page is [id, t]: the string under "sys_id" and the value  *)
(* under the timestamp field.  NoId is a record without a string under     *)
(* "sys_id" and NoTime one without the timestamp field; records that are   *)
(* not JSON objects are not modelled.                                      *)
(***************************************************************************)
EXTENDS Integers, Sequences, FiniteSets, TLC

\* ------------------------------------------------------------------ bounds
MaxSec == 1         \* record timestamps are 0..MaxSec
MaxRecords == 3     \* the source holds at most this many records
MaxRacing == 2      \* the same, while IndexData calls run concurrently
RecordCount == 3    \* AdditionalConfig["RecordCount"]: the page size limit
MaxCycles == 3      \* concurrent IndexData invocations started in one behaviour
MaxPolls == 5       \* IndexData invocations made one after the other
MaxFaultPolls == 3  \* the same, when requests and writes may fail
MaxBatches == 2     \* task batches the broker delivers to the listeners
MaxServiceBatches == 2  \* the same, while the service is started and stopped
MaxStarts == 1      \* Start calls, and Stop calls, made while tasks are handled
MaxLifecycleCalls == 2  \* Start calls, and Stop calls, made on a service that is restarted
MaxTicks == 2       \* heartbeat intervals that elapse

\* -------------------------------------------------------------- timestamps
EmptyTime == -1
BadTime == -2

\* r["sys_id"] and r[timefield] of a record that lacks the field
NoId == 0
NoTime == -3

Secs == 0..MaxSec

\* time.Parse(timeTemplate, s)
TimeParse(s) == IF s >= 0 THEN [ok |-> TRUE, sec |-> s] ELSE [ok |-> FALSE, sec |-> 0]

\* a variant that formats the parsed time without adding the second
AddSecondFormatNoAdvance(sec) == sec

\* t.Add(time.Second).Format(timeTemplate)
AddSecondFormat(sec) == sec + 1

\* ------------------------------------------------------------------ values
Pollers == {1, 2}

NoCheckpoint == [present |-> FALSE]

\* collectionState (Version is the constant "1" and is left out)
CollectionState(t, ids) == [NextRecordTime |-> t, LastTimeRecords |-> ids]

EmptyState == CollectionState(EmptyTime, <<>>)

Stored(cs) == [present |-> TRUE, ck |-> cs]

Range(s) == {s[i] : i \in 1..Len(s)}

VARIABLES
  state,        \* snow.state, the in-memory checkpoint of the job
  store,        \* the blob the Checkpointer holds for the job
  collecting,   \* snow.collecting
  cfgTime,      \* AdditionalConfig["NextRecordTime"]
  source,       \* the records the external source holds
  emitCount,    \* per record id, the number of WriteData calls that carried it
  sourceCap,    \* the number of records the source grows to
  cycles,       \* IndexData invocations still to be started
  inv           \* per poller, the position and the locals of its IndexData call
                \* (held: the Checkpointer's blob when the call began)

snowVars == <<state, store, collecting, cfgTime, source, sourceCap, emitCount, cycles,
             inv>>

VARIABLES
  csStarted,    \* cs.started
  starts,       \* Start calls that won the compare-and-swap
  monitors,     \* per Start, the position of its monitorTasks goroutine
  lst,          \* per partition listener goroutine, its position and locals
  feed,         \* the task batches the broker may deliver
  quota,        \* the number of batches it delivers
  chan,         \* writer.Data(): the batches delivered and not yet received
  delivered,    \* task batches delivered so far
  jobs,         \* cs.jobs: task key -> job (0: no entry)
  instances,    \* the jobs CreateJob has returned, in creation order
  called,       \* <<batch, index, key>> of the task records whose Callback was launched
  returned,     \* the batches whose handleTasks call has returned
  routed,       \* the host-affinities of the records that reached the Job Factory
  hbMode,       \* config[base.Heartbeat]
  hb,           \* per Start, the position of its doHeartbeats goroutine
  ticks,        \* heartbeat intervals elapsed
  hbLog,        \* the heartbeat rounds emitted
  closes,       \* Close calls made on the factory's and the service's clients
  callsLeft,    \* the Start calls and the Stop calls still to be made
  crashed       \* the runtime has aborted the process

svcVars == <<csStarted, starts, monitors, lst, feed, quota, chan, delivered, jobs, instances,
             called, returned, routed, hbMode, hb, ticks, hbLog, closes, callsLeft,
             crashed>>

vars == <<snowVars, svcVars>>

\* ------------------------------------------------------- the external source
\* the first n records of the set rs in ascending (timestamp, id) order
RECURSIVE FirstSorted(_, _)
FirstSorted(rs, n) ==
  IF rs = {} \/ n = 0 THEN <<>>
  ELSE LET m == CHOOSE r \in rs :
                  \A q \in rs : r.t < q.t \/ (r.t = q.t /\ r.id <= q.id)
       IN <<m>> \o FirstSorted(rs \ {m}, n - 1)

\* the answer to  sysparm_query=<field> >= cursor ^ORDERBY <field>
\*                &sysparm_record_count=RecordCount
SourcePage(cursor) ==
  FirstSorted({r \in source : r.t >= cursor}, RecordCount)

\* ------------------------------------------------------------- checkpoints
\* getCheckpoint: [ck, state], ck the checkpoint returned (NoCheckpoint for
\* nil) and state the in-memory checkpoint afterwards
GetCheckpoint(st, sto) ==
  IF st.NextRecordTime # EmptyTime THEN [ck |-> Stored(st), state |-> st]
  ELSE IF ~sto.present THEN [ck |-> NoCheckpoint, state |-> st]
  ELSE [ck |-> sto, state |-> sto.ck]

\* getNextRecordTime: the in-memory checkpoint after the call; its
\* NextRecordTime is the cursor of the request
GetNextRecordTime(st, sto, cfg) ==
  LET g == GetCheckpoint(st, sto)
  IN IF ~g.ck.present THEN [g.state EXCEPT !.NextRecordTime = cfg] ELSE g.state

\* ----------------------------------------------------------- deduplication
\* a variant that compares ids only, whatever the record's timestamp
KeepsRecordByIdOnly(r, lastTimeRecords, lastRecordTime) ==
  ~(r.id \in lastTimeRecords)

\* the condition of lines 196-214 under which a record is kept
KeepsRecord(r, lastTimeRecords, lastRecordTime) ==
  ~(r.t = lastRecordTime /\ r.id \in lastTimeRecords)

\* doRemoveRecords, for records that are maps holding both fields
DoRemoveRecords(records, lastTimeRecords, lastRecordTime) ==
  SelectSeq(records, LAMBDA r : KeepsRecord(r, lastTimeRecords, lastRecordTime))

\* the guard of lines 239-243
TieSaturated(records) ==
  /\ Len(records) = RecordCount
  /\ records[1].t = records[Len(records)].t

\* a variant of the early return that tests the checkpoint for nil only
PassesThroughNilOnly(ck, records) == ~ck.present

\* the early return of lines 230-232
PassesThrough(ck, records) ==
  \/ ~ck.present
  \/ Len(ck.ck.LastTimeRecords) = 0
  \/ Len(records) = 0

\* removeCollectedRecords: [recs, refreshed, state, ck]
RemoveCollectedRecords(st, sto, records) ==
  LET g == GetCheckpoint(st, sto)
      ck == g.ck
  IN IF PassesThrough(ck, records)
     THEN [recs |-> records, refreshed |-> FALSE, state |-> g.state, ck |-> ck]
     ELSE LET lastRecordTime == ck.ck.NextRecordTime
              toIndex == DoRemoveRecords(records, Range(ck.ck.LastTimeRecords),
                                         lastRecordTime)
              parsed == TimeParse(lastRecordTime)
          IN IF ~TieSaturated(records)
             THEN [recs |-> toIndex, refreshed |-> FALSE, state |-> g.state, ck |-> ck]
             ELSE IF ~parsed.ok
             THEN [recs |-> <<>>, refreshed |-> FALSE, state |-> g.state, ck |-> ck]
             ELSE [recs |-> toIndex, refreshed |-> TRUE,
                   state |-> CollectionState(AddSecondFormat(parsed.sec), <<>>),
                   ck |-> ck]

\* a variant that lists the ids at the last timestamp only when two or more
\* records share it
TiedRecordsOnly(records) ==
  LET n == Len(records)
      tied == SelectSeq(records, LAMBDA r : r.t = records[n].t)
  IN IF Len(tied) < 2 THEN <<>>
     ELSE [k \in 1..Len(tied) |-> tied[Len(tied) + 1 - k].id]

\* the ids of the records that share the last record's timestamp, from the
\* end of the sequence backward (lines 274-281)
RECURSIVE MaxTimestampRecords(_)
MaxTimestampRecords(records) ==
  IF Len(records) = 0 THEN <<>>
  ELSE LET n == Len(records)
           front == SubSeq(records, 1, n - 1)
       IN IF n > 1 /\ records[n - 1].t = records[n].t
          THEN <<records[n].id>> \o MaxTimestampRecords(front)
          ELSE <<records[n].id>>

\* writeCheckpoint's currentState, built from the records it is handed
CurrentState(records) ==
  CollectionState(records[Len(records)].t, MaxTimestampRecords(records))

\* writeCheckpoint, lines 274-285: the type assertions r["sys_id"].(string) of
\* the records at the last timestamp and lastRecord[timefield].(string)
CheckpointPanics(records) ==
  \/ NoId \in Range(MaxTimestampRecords(records))
  \/ records[Len(records)].t = NoTime

\* the records IndexData hands to writeCheckpoint: line 162 rebinds `records`
\* to the result of removeCollectedRecords
CheckpointInput(page, recs) == recs

\* ------------------------------------------------------------ IndexData
IdleInv ==
  [pc |-> "idle", cursor |-> EmptyTime, page |-> <<>>, ck |-> NoCheckpoint,
   recs |-> <<>>, refreshed |-> FALSE, ret |-> "none", wrote |-> {},
   before |-> EmptyState, after |-> EmptyState, held |-> NoCheckpoint]

\* a variant in which the compare-and-swap is not consulted
CollectingIgnored == TRUE

\* atomic.CompareAndSwapInt32(&snow.collecting, 0, 1)
CollectingFree == collecting = 0

\* CollectData, lines 106-113: the guard is taken and the request is built
\* from the cursor getURL reads
CollectBegin(p) ==
  /\ inv[p].pc = "idle"
  /\ cycles > 0
  /\ CollectingFree
  /\ collecting' = 1
  /\ state' = GetNextRecordTime(state, store, cfgTime)
  /\ inv' = [inv EXCEPT ![p] = [IdleInv EXCEPT !.pc = "request",
                                               !.cursor = state'.NextRecordTime,
                                               !.held = store]]
  /\ cycles' = cycles - 1
  /\ UNCHANGED <<store, cfgTime, source, sourceCap, emitCount, svcVars>>

\* CollectData, lines 106-109, and IndexData, lines 146-149: a poll is in
\* flight; getURL is still evaluated for the log line; nil, nil is returned
CollectBusy(p) ==
  /\ inv[p].pc = "idle"
  /\ cycles > 0
  /\ ~CollectingFree
  /\ state' = GetNextRecordTime(state, store, cfgTime)
  /\ inv' = [inv EXCEPT ![p] = [IdleInv EXCEPT !.pc = "ret", !.ret = "noop"]]
  /\ cycles' = cycles - 1
  /\ UNCHANGED <<store, collecting, cfgTime, source, sourceCap, emitCount, svcVars>>

\* CollectData, lines 123-142, and IndexData, lines 151-156: the source
\* answers with a page of records; the deferred store releases the guard
CollectFetch(p) ==
  /\ inv[p].pc = "request"
  /\ collecting' = 0
  /\ inv' = [inv EXCEPT ![p].pc = "reconcile",
                        ![p].page = SourcePage(inv[p].cursor)]
  /\ UNCHANGED <<state, store, cfgTime, source, sourceCap, emitCount, cycles, svcVars>>

\* CollectData, lines 114-141 (a transport, gzip or read error), IndexData,
\* lines 152-154 (not JSON) and 181-184 (the source's error payload)
CollectFail(p) ==
  /\ inv[p].pc = "request"
  /\ collecting' = 0
  /\ inv' = [inv EXCEPT ![p].pc = "ret", ![p].ret = "err"]
  /\ UNCHANGED <<state, store, cfgTime, source, sourceCap, emitCount, cycles, svcVars>>

\* IndexData, lines 162-173 and 185
Reconcile(p) ==
  /\ inv[p].pc = "reconcile"
  /\ LET r == RemoveCollectedRecords(state, store, inv[p].page)
     IN /\ state' = r.state
        /\ inv' = [inv EXCEPT ![p].ck = r.ck,
                              ![p].before = state,
                              ![p].after = r.state,
                              ![p].recs = r.recs,
                              ![p].refreshed = r.refreshed,
                              ![p].pc = IF Len(r.recs) > 0 THEN "write" ELSE "ret",
                              ![p].ret = IF Len(r.recs) > 0 THEN "none" ELSE "ok"]
  /\ UNCHANGED <<store, collecting, cfgTime, source, sourceCap, emitCount, cycles, svcVars>>

\* IndexData, lines 173-179: WriteData succeeds
WriteData(p) ==
  /\ inv[p].pc = "write"
  /\ emitCount' = [i \in DOMAIN emitCount |->
                     IF \E k \in 1..Len(inv[p].recs) : inv[p].recs[k].id = i
                     THEN emitCount[i] + 1 ELSE emitCount[i]]
  /\ inv' = [inv EXCEPT ![p].pc = "checkpoint",
                        ![p].wrote = inv[p].wrote \cup {"data"}]
  /\ UNCHANGED <<state, store, collecting, cfgTime, source, sourceCap, cycles, svcVars>>

\* IndexData, lines 175-178: WriteData fails
WriteDataFail(p) ==
  /\ inv[p].pc = "write"
  /\ inv' = [inv EXCEPT ![p].pc = "ret", ![p].ret = "err"]
  /\ UNCHANGED <<state, store, collecting, cfgTime, source, sourceCap, emitCount, cycles, svcVars>>

\* writeCheckpoint, lines 265-299: WriteCheckpoint succeeds
WriteCheckpoint(p) ==
  /\ inv[p].pc = "checkpoint"
  /\ ~CheckpointPanics(CheckpointInput(inv[p].page, inv[p].recs))
  /\ store' = Stored(CurrentState(CheckpointInput(inv[p].page, inv[p].recs)))
  /\ inv' = [inv EXCEPT ![p].pc = IF inv[p].refreshed THEN "ret" ELSE "assign",
                        ![p].ret = IF inv[p].refreshed THEN "ok" ELSE "none",
                        ![p].wrote = inv[p].wrote \cup {"checkpoint"}]
  /\ UNCHANGED <<state, collecting, cfgTime, source, sourceCap, emitCount, cycles, svcVars>>

\* writeCheckpoint, lines 300-303: the in-memory checkpoint follows
AssignState(p) ==
  /\ inv[p].pc = "assign"
  /\ state' = CurrentState(CheckpointInput(inv[p].page, inv[p].recs))
  /\ inv' = [inv EXCEPT ![p].pc = "ret", ![p].ret = "ok"]
  /\ UNCHANGED <<store, collecting, cfgTime, source, sourceCap, emitCount, cycles, svcVars>>

\* a variant in which the Checkpointer has replaced the blob when it reports
\* the error
WriteCheckpointFailAfterWrite(p) ==
  /\ inv[p].pc = "checkpoint"
  /\ ~CheckpointPanics(CheckpointInput(inv[p].page, inv[p].recs))
  /\ store' = Stored(CurrentState(CheckpointInput(inv[p].page, inv[p].recs)))
  /\ inv' = [inv EXCEPT ![p].pc = "ret", ![p].ret = "err"]
  /\ UNCHANGED <<state, collecting, cfgTime, source, sourceCap, emitCount, cycles, svcVars>>

\* writeCheckpoint, lines 295-298: WriteCheckpoint fails
WriteCheckpointFail(p) ==
  /\ inv[p].pc = "checkpoint"
  /\ ~CheckpointPanics(CheckpointInput(inv[p].page, inv[p].recs))
  /\ inv' = [inv EXCEPT ![p].pc = "ret", ![p].ret = "err"]
  /\ UNCHANGED <<state, store, collecting, cfgTime, source, sourceCap, emitCount, cycles, svcVars>>

\* writeCheckpoint, lines 274-285: a failed type assertion panics in the
\* Callback goroutine, which ends the process
WriteCheckpointPanic(p) ==
  /\ inv[p].pc = "checkpoint"
  /\ CheckpointPanics(CheckpointInput(inv[p].page, inv[p].recs))
  /\ inv' = [inv EXCEPT ![p].pc = "panic", ![p].ret = "panic"]
  /\ UNCHANGED <<state, store, collecting, cfgTime, source, sourceCap, emitCount, cycles, svcVars>>

\* IndexData returns to the job's Callback
Return(p) ==
  /\ inv[p].pc = "ret"
  /\ inv' = [inv EXCEPT ![p] = IdleInv]
  /\ UNCHANGED <<state, store, collecting, cfgTime, source, sourceCap, emitCount, cycles, svcVars>>

\* the external source gains a record
SourceGrow ==
  /\ Cardinality(source) < sourceCap
  /\ \E t \in Secs : source' = source \cup {[id |-> Cardinality(source) + 1, t |-> t]}
  /\ UNCHANGED <<state, store, collecting, cfgTime, sourceCap, emitCount, cycles, inv,
                 svcVars>>

\* ------------------------------------------------------- CollectService
LocalHost == "local"

\* the application types the Job Factory knows
KnownApps == {"snow"}

TaskKeys == {"t1", "t2"}

Partitions == {1, 2}

\* the Start calls that win the compare-and-swap, in order
Generations == 1..MaxLifecycleCalls

ListenerIds == Generations \X Partitions

\* one record of a batch's RawData: a task config, or bytes that are not one
TaskConfig(key, app) == [form |-> "config", key |-> key, app |-> app]

Garbled == [form |-> "garbled", key |-> "", app |-> ""]

NoApp(key) == [form |-> "noapp", key |-> key, app |-> ""]

\* base.Data as handleTasks reads it: MetaInfo[base.Host] ("none": no such
\* key) and RawData
Batch(host, tasks) == [host |-> host, tasks |-> tasks]

NoBatch == [bid |-> 0, host |-> "none", tasks |-> <<>>]

IdleListener == [pc |-> "none", batch |-> NoBatch, i |-> 0, job |-> 0]

IdleHeartbeat == [pc |-> "none", sawStop |-> FALSE, pending |-> FALSE]

\* JobFactory.CreateJob: a job, or nil for an application type it does not know
CreatesJob(app) == app \in KnownApps

\* JobFactory.Apps: the application types of the jobs created
Apps == {instances[j].app : j \in 1..Len(instances)}

NewJob(key, app, host) ==
  [key |-> key, app |-> app, host |-> host, starts |-> 0, stops |-> 0, callbacks |-> 0]

\* a variant of handleTasks without the host comparison
HostIgnored(batch) == TRUE

\* handleTasks, line 215
HostMatches(batch) == batch.host = LocalHost

\* handleTasks returns
Returns(l) ==
  /\ lst' = [lst EXCEPT ![l] = [IdleListener EXCEPT !.pc = "check"]]
  /\ returned' = returned \cup {lst[l].batch}

\* Start, lines 64-74
CsStart ==
  /\ ~crashed
  /\ callsLeft.start > 0
  /\ starts + 1 \in Generations
  /\ csStarted = 0
  /\ csStarted' = 1
  /\ callsLeft' = [callsLeft EXCEPT !.start = @ - 1]
  /\ starts' = starts + 1
  /\ monitors' = [monitors EXCEPT ![starts + 1] = "spawned"]
  /\ hb' = [hb EXCEPT ![starts + 1].pc = "spawned"]
  /\ UNCHANGED <<lst, feed, quota, chan, delivered, jobs, instances, called, returned, routed,
                 hbMode, ticks, hbLog, closes, crashed, snowVars>>

\* Start, lines 65-68: the service is started already
CsStartAgain ==
  /\ ~crashed
  /\ callsLeft.start > 0
  /\ csStarted # 0
  /\ callsLeft' = [callsLeft EXCEPT !.start = @ - 1]
  /\ UNCHANGED <<csStarted, starts, monitors, lst, feed, quota, chan, delivered, jobs,
                 instances, called, returned, routed, hbMode, hb, ticks, hbLog, closes,
                 crashed, snowVars>>

\* Stop, lines 76-90
CsStop ==
  /\ ~crashed
  /\ callsLeft.stop > 0
  /\ csStarted = 1
  /\ csStarted' = 0
  /\ callsLeft' = [callsLeft EXCEPT !.stop = @ - 1]
  /\ closes' = [c \in DOMAIN closes |-> closes[c] + 1]
  /\ instances' = [j \in 1..Len(instances) |->
                     IF \E k \in TaskKeys : jobs[k] = j
                     THEN [instances[j] EXCEPT !.stops = @ + 1] ELSE instances[j]]
  /\ UNCHANGED <<starts, monitors, lst, feed, quota, chan, delivered, jobs, called, returned,
                 routed, hbMode, hb, ticks, hbLog, crashed, snowVars>>

\* a variant of Stop that closes the clients without the compare-and-swap
CsStopAgainClosing ==
  /\ ~crashed
  /\ callsLeft.stop > 0
  /\ csStarted # 1
  /\ callsLeft' = [callsLeft EXCEPT !.stop = @ - 1]
  /\ closes' = [c \in DOMAIN closes |-> closes[c] + 1]
  /\ UNCHANGED <<csStarted, starts, monitors, lst, feed, quota, chan, delivered, jobs,
                 instances, called, returned, routed, hbMode, hb, ticks, hbLog, crashed,
                 snowVars>>

\* Stop, lines 77-80: the service is stopped already
CsStopAgain ==
  /\ ~crashed
  /\ callsLeft.stop > 0
  /\ csStarted # 1
  /\ callsLeft' = [callsLeft EXCEPT !.stop = @ - 1]
  /\ UNCHANGED <<csStarted, starts, monitors, lst, feed, quota, chan, delivered, jobs,
                 instances, called, returned, routed, hbMode, hb, ticks, hbLog, closes,
                 crashed, snowVars>>

\* monitorTasks, lines 159-178: one listener goroutine per partition
MonitorTasks(g) ==
  /\ ~crashed
  /\ monitors[g] = "spawned"
  /\ monitors' = [monitors EXCEPT ![g] = "done"]
  /\ lst' = [l \in ListenerIds |->
               IF l[1] = g THEN [IdleListener EXCEPT !.pc = "start"] ELSE lst[l]]
  /\ UNCHANGED <<csStarted, starts, feed, quota, chan, delivered, jobs, instances, called,
                 returned, routed, hbMode, callsLeft, hb, ticks, hbLog, closes, crashed, snowVars>>

\* monitorTasks, lines 180-182
ListenerStart(l) ==
  /\ ~crashed
  /\ lst[l].pc = "start"
  /\ lst' = [lst EXCEPT ![l].pc = "check"]
  /\ UNCHANGED <<csStarted, starts, monitors, feed, quota, chan, delivered, jobs, instances,
                 called, returned, routed, hbMode, callsLeft, hb, ticks, hbLog, closes, crashed,
                 snowVars>>

\* monitorTasks, line 184 and the deferred r.Stop() of line 181
ListenerCheck(l) ==
  /\ ~crashed
  /\ lst[l].pc = "check"
  /\ lst' = [lst EXCEPT ![l].pc = IF csStarted # 0 THEN "recv" ELSE "exit"]
  /\ UNCHANGED <<csStarted, starts, monitors, feed, quota, chan, delivered, jobs, instances,
                 called, returned, routed, hbMode, callsLeft, hb, ticks, hbLog, closes, crashed,
                 snowVars>>

\* the broker's reader forwards a batch of task records to writer.Data()
Deliver ==
  /\ ~crashed
  /\ delivered < quota
  /\ delivered' = delivered + 1
  /\ \E b \in feed :
        chan' = Append(chan, [bid |-> delivered + 1, host |-> b.host, tasks |-> b.tasks])
  /\ UNCHANGED <<csStarted, starts, monitors, lst, feed, quota, jobs, instances, called,
                 returned, routed, hbMode, callsLeft, hb, ticks, hbLog, closes, crashed, snowVars>>

\* monitorTasks, lines 185-187, and handleTasks, lines 197-200
Receive(l) ==
  /\ ~crashed
  /\ lst[l].pc = "recv"
  /\ chan # <<>>
  /\ chan' = Tail(chan)
  /\ IF Head(chan).host = "none"
     THEN /\ lst' = [lst EXCEPT ![l].pc = "check"]
          /\ returned' = returned \cup {Head(chan)}
     ELSE /\ lst' = [lst EXCEPT ![l].pc = "loop", ![l].batch = Head(chan), ![l].i = 1]
          /\ UNCHANGED returned
  /\ UNCHANGED <<csStarted, starts, monitors, feed, quota, delivered, jobs, instances, called,
                 routed, hbMode, callsLeft, hb, ticks, hbLog, closes, crashed, snowVars>>

\* handleTasks, lines 202-217: the next record of the batch is decoded and
\* validated
NextRecord(l) ==
  /\ ~crashed
  /\ lst[l].pc = "loop"
  /\ IF lst[l].i > Len(lst[l].batch.tasks) THEN Returns(l)
     ELSE IF lst[l].batch.tasks[lst[l].i].form # "config"
     THEN lst' = [lst EXCEPT ![l].i = @ + 1] /\ UNCHANGED returned
     ELSE IF ~HostMatches(lst[l].batch) THEN Returns(l)
     ELSE lst' = [lst EXCEPT ![l].pc = "lookup"] /\ UNCHANGED returned
  /\ UNCHANGED <<csStarted, starts, monitors, feed, quota, chan, delivered, jobs, instances,
                 called, routed, hbMode, callsLeft, hb, ticks, hbLog, closes, crashed, snowVars>>

\* handleTasks, lines 219-221
Lookup(l) ==
  /\ ~crashed
  /\ lst[l].pc = "lookup"
  /\ lst' = [lst EXCEPT ![l].pc =
               IF jobs[lst[l].batch.tasks[lst[l].i].key] # 0 THEN "callback" ELSE "create"]
  /\ UNCHANGED <<csStarted, starts, monitors, feed, quota, chan, delivered, jobs, instances,
                 called, returned, routed, hbMode, callsLeft, hb, ticks, hbLog, closes, crashed,
                 snowVars>>

\* handleTasks, lines 222-226
CreateJob(l) ==
  /\ ~crashed
  /\ lst[l].pc = "create"
  /\ routed' = routed \cup {lst[l].batch.host}
  /\ LET task == lst[l].batch.tasks[lst[l].i]
     IN IF CreatesJob(task.app)
        THEN /\ instances' = Append(instances, NewJob(task.key, task.app, lst[l].batch.host))
             /\ jobs' = [jobs EXCEPT ![task.key] = Len(instances) + 1]
             /\ lst' = [lst EXCEPT ![l].pc = "startjob", ![l].job = Len(instances) + 1]
             /\ UNCHANGED returned
        ELSE Returns(l) /\ UNCHANGED <<jobs, instances>>
  /\ UNCHANGED <<csStarted, starts, monitors, feed, quota, chan, delivered, called, hbMode, callsLeft, hb,
                 ticks, hbLog, closes, crashed, snowVars>>

\* handleTasks, line 227
StartJob(l) ==
  /\ ~crashed
  /\ lst[l].pc = "startjob"
  /\ instances' = [instances EXCEPT ![lst[l].job].starts = @ + 1]
  /\ routed' = routed \cup {lst[l].batch.host}
  /\ lst' = [lst EXCEPT ![l].pc = "callback"]
  /\ UNCHANGED <<csStarted, starts, monitors, feed, quota, chan, delivered, jobs, called,
                 returned, hbMode, callsLeft, hb, ticks, hbLog, closes, crashed, snowVars>>

\* handleTasks, line 230: Callback is launched on the job the cache holds now
LaunchCallback(l) ==
  /\ ~crashed
  /\ lst[l].pc = "callback"
  /\ instances' = [instances EXCEPT
                     ![jobs[lst[l].batch.tasks[lst[l].i].key]].callbacks = @ + 1]
  /\ called' = called \cup {<<lst[l].batch.bid, lst[l].i, lst[l].batch.tasks[lst[l].i].key>>}
  /\ routed' = routed \cup {lst[l].batch.host}
  /\ lst' = [lst EXCEPT ![l].pc = "loop", ![l].i = @ + 1, ![l].job = 0]
  /\ UNCHANGED <<csStarted, starts, monitors, feed, quota, chan, delivered, jobs, returned,
                 hbMode, callsLeft, hb, ticks, hbLog, closes, crashed, snowVars>>

\* cs.jobs is a plain map: an insert that overlaps another listener's access
\* to it makes the runtime abort the process
MapRace ==
  /\ ~crashed
  /\ \E l, m \in ListenerIds :
        l # m /\ lst[l].pc = "create" /\ lst[m].pc \in {"lookup", "create", "callback"}
  /\ crashed' = TRUE
  /\ UNCHANGED <<csStarted, starts, monitors, lst, feed, quota, chan, delivered, jobs,
                 instances, called, returned, routed, hbMode, callsLeft, hb, ticks, hbLog, closes,
                 snowVars>>

\* doHeartbeats, lines 92-98, and doHeartbeatsThroughZooKeeper, lines 100-117
HeartbeatZooKeeper(g) ==
  /\ ~crashed
  /\ hb[g].pc = "spawned"
  /\ hbMode # "kafka"
  /\ hbLog' = hbLog \cup {[gen |-> g, tick |-> ticks, apps |-> Apps]}
  /\ hb' = [hb EXCEPT ![g].pc = "done"]
  /\ UNCHANGED <<csStarted, starts, monitors, lst, feed, quota, chan, delivered, jobs,
                 instances, called, returned, routed, hbMode, callsLeft, ticks, closes, crashed,
                 snowVars>>

\* doHeartbeats, lines 92-98, and doHeartBeatsThroughKafka, lines 119-141
HeartbeatKafkaStart(g) ==
  /\ ~crashed
  /\ hb[g].pc = "spawned"
  /\ hbMode = "kafka"
  /\ hb' = [hb EXCEPT ![g].pc = "check"]
  /\ UNCHANGED <<csStarted, starts, monitors, lst, feed, quota, chan, delivered, jobs,
                 instances, called, returned, routed, hbMode, callsLeft, ticks, hbLog, closes,
                 crashed, snowVars>>

\* doHeartBeatsThroughKafka, line 142 and the deferred writer.Stop() of line 131
HeartbeatCheck(g) ==
  /\ ~crashed
  /\ hb[g].pc = "check"
  /\ hb' = [hb EXCEPT ![g].pc = IF csStarted # 0 THEN "wait" ELSE "done",
                      ![g].sawStop = csStarted = 0]
  /\ UNCHANGED <<csStarted, starts, monitors, lst, feed, quota, chan, delivered, jobs,
                 instances, called, returned, routed, hbMode, callsLeft, ticks, hbLog, closes,
                 crashed, snowVars>>

\* a heartbeat interval elapses: the ticker of every running event-log
\* reporter holds a tick (its channel keeps one)
Tick ==
  /\ ~crashed
  /\ ticks < MaxTicks
  /\ ticks' = ticks + 1
  /\ hb' = [g \in Generations |->
              IF hb[g].pc \in {"check", "wait"} THEN [hb[g] EXCEPT !.pending = TRUE]
              ELSE hb[g]]
  /\ UNCHANGED <<csStarted, starts, monitors, lst, feed, quota, chan, delivered, jobs,
                 instances, called, returned, routed, hbMode, callsLeft, hbLog, closes, crashed,
                 snowVars>>

\* doHeartBeatsThroughKafka, lines 143-155
HeartbeatEmit(g) ==
  /\ ~crashed
  /\ hb[g].pc = "wait"
  /\ hb[g].pending
  /\ hbLog' = hbLog \cup {[gen |-> g, tick |-> ticks, apps |-> Apps]}
  /\ hb' = [hb EXCEPT ![g].pc = "check", ![g].pending = FALSE]
  /\ UNCHANGED <<csStarted, starts, monitors, lst, feed, quota, chan, delivered, jobs,
                 instances, called, returned, routed, hbMode, callsLeft, ticks, closes, crashed,
                 snowVars>>

\* ------------------------------------------------------------ specifications
\* NewSnowDataReader, lines 56-63; the Checkpointer may hold the checkpoint
\* an earlier run of the job wrote for the record the source then held
SnowInit(polls, records) ==
  /\ state = EmptyState
  /\ collecting = 0
  /\ cfgTime \in {EmptyTime, 0}
  /\ \/ source = {} /\ store = NoCheckpoint
     \/ source = {[id |-> 1, t |-> 0]} /\ store = Stored(CollectionState(0, <<1>>))
  /\ sourceCap = records
  /\ emitCount = [i \in 1..records |-> 0]
  /\ cycles = polls
  /\ inv = [p \in Pollers |-> IdleInv]

\* no job of the service polls
SnowQuiet ==
  /\ state = EmptyState
  /\ collecting = 0
  /\ cfgTime = 0
  /\ source = {}
  /\ store = NoCheckpoint
  /\ sourceCap = 0
  /\ emitCount = <<>>
  /\ cycles = 0
  /\ inv = [p \in Pollers |-> IdleInv]

\* NewCollectService, lines 53-61
SvcInit(batches, n, modes, startCalls, stopCalls) ==
  /\ callsLeft = [start |-> startCalls, stop |-> stopCalls]
  /\ csStarted = 0
  /\ starts = 0
  /\ monitors = [g \in Generations |-> "none"]
  /\ lst = [l \in ListenerIds |-> IdleListener]
  /\ feed = batches
  /\ quota = n
  /\ chan = <<>>
  /\ delivered = 0
  /\ jobs = [k \in TaskKeys |-> 0]
  /\ instances = <<>>
  /\ called = {}
  /\ returned = {}
  /\ routed = {}
  /\ hbMode \in modes
  /\ hb = [g \in Generations |-> IdleHeartbeat]
  /\ ticks = 0
  /\ hbLog = {}
  /\ closes = [factory |-> 0, client |-> 0, zk |-> 0]
  /\ crashed = FALSE

SvcIdle == SvcInit({}, 0, {"zookeeper"}, 0, 0)

Init == SnowInit(MaxCycles, MaxRacing) /\ SvcIdle

\* IndexData invoked by concurrent Callback goroutines of one job
Next ==
  \/ \E p \in Pollers :
        \/ CollectBegin(p)
        \/ CollectBusy(p)
        \/ CollectFetch(p)
        \/ CollectFail(p)
        \/ Reconcile(p)
        \/ WriteData(p)
        \/ WriteDataFail(p)
        \/ WriteCheckpoint(p)
        \/ AssignState(p)
        \/ WriteCheckpointFail(p)
        \/ Return(p)
  \/ SourceGrow

Spec == Init /\ [][Next]_vars

\* IndexData invoked one call after the other; WriteData and WriteCheckpoint
\* always succeed and the source always answers
NextCycles ==
  \/ CollectBegin(1)
  \/ CollectFetch(1)
  \/ Reconcile(1)
  \/ WriteData(1)
  \/ WriteCheckpoint(1)
  \/ AssignState(1)
  \/ Return(1)
  \/ SourceGrow

InitCycles == SnowInit(MaxPolls, MaxRecords) /\ SvcIdle

SpecCycles == InitCycles /\ [][NextCycles]_vars

\* IndexData invoked one call after the other, with every outcome of the
\* request, of WriteData and of WriteCheckpoint
NextFaults ==
  \/ CollectBegin(1)
  \/ CollectFetch(1)
  \/ CollectFail(1)
  \/ Reconcile(1)
  \/ WriteData(1)
  \/ WriteDataFail(1)
  \/ WriteCheckpoint(1)
  \/ AssignState(1)
  \/ WriteCheckpointFail(1)
  \/ Return(1)
  \/ SourceGrow

InitFaults == SnowInit(MaxFaultPolls, MaxRecords) /\ SvcIdle

SpecFaults == InitFaults /\ [][NextFaults]_vars

\* removeCollectedRecords applied to a page and a checkpoint drawn from bounded
\* sets, by two IndexData calls that hold the same page, one after the other
RECURSIVE SetToSeq(_)
SetToSeq(S) ==
  IF S = {} THEN <<>>
  ELSE LET m == CHOOSE x \in S : \A y \in S : x >= y
       IN <<m>> \o SetToSeq(S \ {m})

Ids == 1..MaxRecords

PageTimes == Secs \cup {BadTime}

\* the pages of at most RecordCount records with distinct ids, in any order
Pages ==
  UNION {{q \in [1..n -> [id : Ids, t : PageTimes]] :
            \A i, j \in 1..n : i # j => q[i].id # q[j].id} : n \in 0..RecordCount}

\* the in-memory checkpoints removeCollectedRecords can meet: none (the cursor
\* is empty and the Checkpointer holds nothing), or a cursor with the ids
\* committed at it
MemoryStates ==
  {EmptyState} \cup
  {CollectionState(t, SetToSeq(S)) : t \in PageTimes, S \in SUBSET Ids}

ReconcileInit ==
  /\ state \in MemoryStates
  /\ store = IF state = EmptyState THEN NoCheckpoint ELSE Stored(state)
  /\ collecting = 0
  /\ cfgTime = EmptyTime
  /\ source = {}
  /\ sourceCap = 0
  /\ emitCount = [i \in 1..MaxRecords |-> 0]
  /\ cycles = 0
  /\ \E q \in Pages :
        inv = [p \in Pollers |-> [IdleInv EXCEPT !.pc = "reconcile", !.page = q,
                                                !.cursor = state.NextRecordTime,
                                                !.held = store]]
  /\ SvcIdle

ReconcileFirst == Reconcile(1)

ReconcileSecond == inv[1].pc # "reconcile" /\ Reconcile(2)

NextReconcile == ReconcileFirst \/ ReconcileSecond

SpecReconcile == ReconcileInit /\ [][NextReconcile]_vars

\* one IndexData call, from the page it fetched on, for pages that hold
\* records without an id or without a timestamp
IntegrityPages ==
  UNION {{q \in [1..n -> [id : Ids \cup {NoId}, t : Secs \cup {NoTime}]] :
            \A i, j \in 1..n : i # j /\ q[i].id # NoId => q[i].id # q[j].id}
         : n \in 0..RecordCount}

IntegrityStates == {EmptyState} \cup {CollectionState(t, <<1>>) : t \in Secs}

InitIntegrity ==
  /\ state \in IntegrityStates
  /\ store = IF state = EmptyState THEN NoCheckpoint ELSE Stored(state)
  /\ collecting = 0
  /\ cfgTime = EmptyTime
  /\ source = {}
  /\ sourceCap = 0
  /\ emitCount = [i \in 1..MaxRecords |-> 0]
  /\ cycles = 0
  /\ \E q \in IntegrityPages :
        inv = [p \in Pollers |->
                 IF p = 1 THEN [IdleInv EXCEPT !.pc = "reconcile", !.page = q,
                                                !.cursor = state.NextRecordTime,
                                                !.held = store]
                 ELSE IdleInv]
  /\ SvcIdle

NextIntegrity ==
  \/ Reconcile(1)
  \/ WriteData(1)
  \/ WriteCheckpoint(1)
  \/ AssignState(1)
  \/ WriteCheckpointPanic(1)

SpecIntegrity == InitIntegrity /\ [][NextIntegrity]_vars

\* the task batches of the listener specification: for this host, batches
\* that repeat a task, name two tasks, or put a record that is skipped or an
\* unknown application type before or after a valid task; for another host
\* and for no host, a valid task alone or after a record that is skipped
TaskA == TaskConfig("t1", "snow")

TaskB == TaskConfig("t2", "snow")

TaskU == TaskConfig("t2", "bogus")

TaskBatches ==
  {Batch(LocalHost, t) :
     t \in {<<TaskA>>, <<TaskB>>, <<TaskU>>, <<TaskA, TaskA>>, <<TaskA, TaskB>>,
            <<TaskU, TaskA>>, <<TaskA, TaskU>>, <<Garbled, TaskA>>,
            <<NoApp("t2"), TaskB>>}}
  \cup {Batch("other", <<TaskA>>), Batch("other", <<Garbled, TaskA>>),
        Batch("none", <<TaskA>>)}

InitTasks == SnowQuiet /\ SvcInit(TaskBatches, MaxBatches, {"zookeeper"}, MaxStarts, 0)

NextTasks ==
  \/ CsStart
  \/ Deliver
  \/ MapRace
  \/ \E g \in Generations : MonitorTasks(g)
  \/ \E l \in ListenerIds :
        \/ ListenerStart(l)
        \/ ListenerCheck(l)
        \/ Receive(l)
        \/ NextRecord(l)
        \/ Lookup(l)
        \/ CreateJob(l)
        \/ StartJob(l)
        \/ LaunchCallback(l)

SpecTasks == InitTasks /\ [][NextTasks]_vars

\* the service with its heartbeat reporter, started and stopped
ServiceBatches == {Batch(LocalHost, <<TaskConfig("t1", "snow")>>)}

InitService ==
  SnowQuiet /\ SvcInit(ServiceBatches, MaxServiceBatches, {"zookeeper", "kafka"},
                       MaxStarts, MaxStarts)

NextService ==
  \/ CsStart
  \/ CsStop
  \/ Deliver
  \/ MapRace
  \/ Tick
  \/ \E g \in Generations :
        \/ MonitorTasks(g)
        \/ HeartbeatZooKeeper(g)
        \/ HeartbeatKafkaStart(g)
        \/ HeartbeatCheck(g)
        \/ HeartbeatEmit(g)
  \/ \E l \in ListenerIds :
        \/ ListenerStart(l)
        \/ ListenerCheck(l)
        \/ Receive(l)
        \/ NextRecord(l)
        \/ Lookup(l)
        \/ CreateJob(l)
        \/ StartJob(l)
        \/ LaunchCallback(l)

SpecService == InitService /\ [][NextService]_vars

\* the same under fair scheduling: a goroutine that can take a step takes one,
\* and the ticker ticks; the broker is not obliged to deliver a batch
ListenerStep(l) ==
  \/ ListenerStart(l)
  \/ ListenerCheck(l)
  \/ Receive(l)
  \/ NextRecord(l)
  \/ Lookup(l)
  \/ CreateJob(l)
  \/ StartJob(l)
  \/ LaunchCallback(l)

HeartbeatStep(g) ==
  \/ HeartbeatZooKeeper(g)
  \/ HeartbeatKafkaStart(g)
  \/ HeartbeatCheck(g)
  \/ HeartbeatEmit(g)

SpecServiceFair ==
  /\ SpecService
  /\ WF_vars(Tick)
  /\ \A g \in Generations : WF_vars(MonitorTasks(g)) /\ WF_vars(HeartbeatStep(g))
  /\ \A l \in ListenerIds : WF_vars(ListenerStep(l))

\* Start and Stop called in any order, also on a service that is started or
\* stopped already, while no task arrives; the heartbeat goes through the
\* coordination service
InitCalls ==
  SnowQuiet /\ SvcInit({}, 0, {"zookeeper"}, MaxLifecycleCalls, MaxLifecycleCalls)

NextCalls ==
  \/ CsStart
  \/ CsStartAgain
  \/ CsStop
  \/ CsStopAgain
  \/ \E g \in Generations : MonitorTasks(g) \/ HeartbeatZooKeeper(g)
  \/ \E l \in ListenerIds : ListenerStart(l) \/ ListenerCheck(l)

SpecCalls == InitCalls /\ [][NextCalls]_vars

\* the same with either heartbeat transport and the heartbeat ticker
InitRestart ==
  SnowQuiet /\ SvcInit({}, 0, {"zookeeper", "kafka"}, MaxLifecycleCalls, MaxLifecycleCalls)

NextRestart ==
  \/ CsStart
  \/ CsStartAgain
  \/ CsStop
  \/ CsStopAgain
  \/ Tick
  \/ \E g \in Generations :
        \/ MonitorTasks(g)
        \/ HeartbeatZooKeeper(g)
        \/ HeartbeatKafkaStart(g)
        \/ HeartbeatCheck(g)
        \/ HeartbeatEmit(g)
  \/ \E l \in ListenerIds : ListenerStart(l) \/ ListenerCheck(l)

SpecRestart == InitRestart /\ [][NextRestart]_vars

\* ------------------------------------------------------------------ claims
\* C1: over poll cycles in which WriteData and WriteCheckpoint succeed, no
\* record id is carried by more than one WriteData call
C1_NoRecordWrittenTwice == \A i \in DOMAIN emitCount : emitCount[i] <= 1

\* a cycle has just committed a checkpoint without the tie-saturation guard
Committed(p) ==
  /\ inv[p].pc = "ret"
  /\ "checkpoint" \in inv[p].wrote
  /\ ~inv[p].refreshed

\* C5: after a non-refreshed cycle with non-empty toEmit the checkpoint holds
\* the timestamp of the last record of the fetched page and the ids of all
\* records of the fetched page that share it, from the end backward
C5_CheckpointFromFetchedPage ==
  \A p \in Pollers : Committed(p) => state = CurrentState(inv[p].page)

\* the poller's removeCollectedRecords call has returned
Reconciled(p) == inv[p].pc \in {"write", "ret"} /\ inv[p].ret # "noop"

\* the checkpoint the call met has ids in lastTimeRecords, and the page has records
DedupCase(p) ==
  /\ inv[p].ck.present
  /\ inv[p].ck.ck.LastTimeRecords # <<>>
  /\ inv[p].page # <<>>

\* the page less the records at the checkpoint's timestamp whose id the
\* checkpoint lists, in page order
PageMinusCommitted(p) ==
  LET c == inv[p].ck.ck
      listed(r) == \E k \in 1..Len(c.LastTimeRecords) : c.LastTimeRecords[k] = r.id
      kept(r) == r.t # c.NextRecordTime \/ ~listed(r)
  IN SelectSeq(inv[p].page, kept)

\* the page has exactly RecordCount records and they share one timestamp
FullPageOneTimestamp(p) ==
  /\ Len(inv[p].page) = RecordCount
  /\ \A i \in 1..Len(inv[p].page) : inv[p].page[i].t = inv[p].page[1].t

\* the page is full and its first and last record share a timestamp
FullPageSameEnds(p) ==
  /\ Len(inv[p].page) = RecordCount
  /\ RecordCount > 0
  /\ inv[p].page[1].t = inv[p].page[Len(inv[p].page)].t

Parses(t) == t >= 0

\* C2, as stated: with ids in lastTimeRecords and a non-empty page, toEmit is
\* the page less the committed records at the checkpoint's timestamp, and a
\* second reconcile of the same page emits the same records
C2_AsStated ==
  /\ \A p \in Pollers : Reconciled(p) /\ DedupCase(p) => inv[p].recs = PageMinusCommitted(p)
  /\ Reconciled(1) /\ Reconciled(2) /\ DedupCase(1) => inv[2].recs = inv[1].recs

\* C2, amended: toEmit is the page less the committed records at the
\* checkpoint's timestamp, except that it is empty when the page is full with
\* equal first and last timestamps and the checkpoint's timestamp does not
\* parse; a second reconcile of the same page emits the same records unless
\* the first one fired the tie-saturation guard, and then it emits the page
C2_Dedup ==
  /\ \A p \in Pollers :
        Reconciled(p) /\ DedupCase(p) =>
          inv[p].recs = IF FullPageSameEnds(p) /\ ~Parses(inv[p].ck.ck.NextRecordTime)
                        THEN <<>> ELSE PageMinusCommitted(p)
  /\ Reconciled(1) /\ Reconciled(2) /\ DedupCase(1) =>
        inv[2].recs = IF inv[1].refreshed THEN inv[2].page ELSE inv[1].recs

\* a committed record is dropped and another record is kept
C2_Witness ==
  /\ Reconciled(1) /\ Reconciled(2) /\ DedupCase(1)
  /\ inv[1].recs # <<>>
  /\ Len(inv[1].recs) < Len(inv[1].page)
  /\ \E i \in 1..Len(inv[1].recs) : inv[1].recs[i].t = inv[1].ck.ck.NextRecordTime

C4_PassThrough ==
  \A p \in Pollers :
    Reconciled(p) /\ ~DedupCase(p) =>
      /\ inv[p].recs = inv[p].page
      /\ ~inv[p].refreshed
      /\ inv[p].after = inv[p].before

\* a full page of one timestamp passes through when there is no checkpoint
C4_Witness ==
  /\ Reconciled(1) /\ ~inv[1].ck.present
  /\ FullPageOneTimestamp(1)
  /\ inv[1].recs = inv[1].page

\* C6: at most one poll of the job has its request in flight; a poll invoked
\* while another is in flight issues no request, returns an empty result and
\* no error, and its IndexData writes neither data nor a checkpoint
C6_OnePollInFlight ==
  /\ [](/\ Cardinality({p \in Pollers : inv[p].pc = "request"}) <= 1
        /\ \A p \in Pollers :
              inv[p].ret = "noop" =>
                inv[p].pc = "ret" /\ inv[p].page = <<>> /\ inv[p].wrote = {})
  /\ [][\A p, q \in Pollers :
          inv[p].pc = "idle" /\ inv[q].pc = "request" /\ inv'[p].pc # "idle" =>
            /\ inv'[p].pc = "ret" /\ inv'[p].ret = "noop"
            /\ emitCount' = emitCount /\ store' = store]_vars

\* a poll was turned away while the other poller's request is in flight
C6_Witness ==
  \E p, q \in Pollers :
    inv[p].pc = "request" /\ inv[q].pc = "ret" /\ inv[q].ret = "noop"

\* the jobs CreateJob has returned for a task key
JobsOf(k) == {j \in 1..Len(instances) : instances[j].key = k}

\* C7: the task records of one task identity, handled by one listener or by
\* two, create and start one job, and every Callback they launch is on it
C7_OneJobPerTask ==
  \A k \in TaskKeys :
    /\ Cardinality(JobsOf(k)) <= 1
    /\ \A j \in JobsOf(k) :
          /\ instances[j].starts <= 1
          /\ instances[j].callbacks = Cardinality({c \in called : c[3] = k})

\* C8: CreateJob, Start and Callback are invoked only for task records whose
\* batch names this host
C8_HostAffinity ==
  /\ routed \subseteq {LocalHost}
  /\ \A j \in 1..Len(instances) : instances[j].host = LocalHost
  /\ \A l \in ListenerIds :
        lst[l].pc \in {"lookup", "create", "startjob", "callback"}
          => lst[l].batch.host = LocalHost

\* a batch for another host, holding a task config, has been handled, and so
\* has a batch for this host whose task was called back
C8_Witness ==
  /\ \E b \in returned :
        b.host = "other" /\ \E i \in 1..Len(b.tasks) : b.tasks[i].form = "config"
  /\ \E b \in returned : b.host = LocalHost /\ \E c \in called : c[1] = b.bid

\* C9: an unknown application type skips only its own task: no job is created
\* for it, and every valid task record of a batch that has been handled was
\* called back
C9_OnlyUnknownSkipped ==
  /\ \A j \in 1..Len(instances) : instances[j].app \in KnownApps
  /\ \A b \in returned :
        \A i \in 1..Len(b.tasks) :
          b.host = LocalHost /\ b.tasks[i].form = "config" /\ b.tasks[i].app \in KnownApps
            => \E c \in called : c[1] = b.bid /\ c[2] = i

\* C10: in both transports the reporter goes on emitting on every tick until
\* it observes the stop signal: a reporter that has ended has seen it
C10_ReporterRunsUntilStop ==
  \A g \in Generations : hb[g].pc = "done" => hb[g].sawStop
\* WriteCheckpoint has failed in the poller's cycle
CheckpointWriteFailed(p) ==
  inv[p].pc = "ret" /\ inv[p].ret = "err" /\ "data" \in inv[p].wrote

\* C11, as stated: a cycle in which WriteCheckpoint fails leaves the durable
\* and the in-memory checkpoint as they were when the cycle read them, the
\* tie-saturation guard having fired or not
C11_AsStated ==
  \A p \in Pollers :
    CheckpointWriteFailed(p) => store = inv[p].held /\ state = inv[p].before

\* C11, amended: a cycle in which WriteCheckpoint fails leaves the durable
\* checkpoint as it was; the in-memory checkpoint is as it was when the guard
\* did not fire, and is the cursor advanced by one second with an empty
\* lastTimeRecords when it fired
C11_FailedWrite ==
  \A p \in Pollers :
    CheckpointWriteFailed(p) =>
      /\ store = inv[p].held
      /\ state = IF inv[p].refreshed
                 THEN CollectionState(inv[p].before.NextRecordTime + 1, <<>>)
                 ELSE inv[p].before

\* WriteCheckpoint has failed in a cycle in which the guard fired: the
\* in-memory cursor has moved and the Checkpointer holds the blob it held
C11_Witness ==
  /\ CheckpointWriteFailed(1)
  /\ inv[1].held.present
  /\ inv[1].refreshed
  /\ state # inv[1].before
\* the section of IndexData that reads the checkpoint, reconciles the page,
\* writes downstream and writes the checkpoint (lines 162-179)
InCheckpointSection(p) == inv[p].pc \in {"reconcile", "write", "checkpoint", "assign"}

\* C13: the reconcile/checkpoint section of IndexData is never executed by
\* two invocations on the same job at the same time
C13_SectionSerialized ==
  Cardinality({p \in Pollers : InCheckpointSection(p)}) <= 1

\* the guard's condition holds and the checkpoint's timestamp does not parse
ParseFailureCase(p) ==
  /\ DedupCase(p)
  /\ FullPageSameEnds(p)
  /\ ~Parses(inv[p].ck.ck.NextRecordTime)

\* C14: when the guard's condition holds and the cursor does not parse,
\* nothing is emitted, no checkpoint is written, the in-memory checkpoint is
\* unchanged, and IndexData returns an error
C14_ParseFailureIsError ==
  \A p \in Pollers :
    Reconciled(p) /\ ParseFailureCase(p) =>
      /\ inv[p].recs = <<>>
      /\ inv[p].wrote = {}
      /\ inv[p].after = inv[p].before
      /\ store = inv[p].held
      /\ inv[p].pc = "ret" /\ inv[p].ret = "err"

\* the number of records that share the last record's timestamp
TiedAtEnd(records) ==
  Cardinality({k \in 1..Len(records) : records[k].t = records[Len(records)].t})

\* C16, as stated: after a committed batch, lastTimeRecords is non-empty only
\* when more than one emitted record has the batch's maximal timestamp, and
\* is empty when a single record has it
C16_AsStated ==
  \A p \in Pollers :
    Committed(p) =>
      /\ state.LastTimeRecords # <<>> => TiedAtEnd(inv[p].recs) > 1
      /\ store.ck.LastTimeRecords # <<>> => TiedAtEnd(inv[p].recs) > 1

\* C16, amended: a persisted checkpoint always lists at least one id; after
\* a committed batch, lastTimeRecords in memory and persisted lists every
\* emitted record that has the batch's maximal timestamp, the single one
\* included
C16_ListsEveryRecordAtMaximum ==
  /\ store.present => Len(store.ck.LastTimeRecords) >= 1
  /\ \A p \in Pollers :
        Committed(p) =>
          LET recs == inv[p].recs
          IN /\ store = Stored(state)
             /\ state.NextRecordTime = recs[Len(recs)].t
             /\ Len(state.LastTimeRecords) = TiedAtEnd(recs)
             /\ Range(state.LastTimeRecords) =
                  {recs[k].id : k \in {j \in 1..Len(recs) : recs[j].t = recs[Len(recs)].t}}

\* a batch whose maximal timestamp belongs to one record has been committed
\* and lastTimeRecords lists that record
C16_Witness ==
  /\ Committed(1)
  /\ Len(inv[1].recs) > 1
  /\ TiedAtEnd(inv[1].recs) = 1
  /\ state.LastTimeRecords = <<inv[1].recs[Len(inv[1].recs)].id>>

\* C18: after a cycle in which WriteCheckpoint succeeded, the in-memory
\* checkpoint equals the blob just persisted, the guard having fired or not
C18_WriteThrough ==
  \A p \in Pollers :
    inv[p].pc = "ret" /\ "checkpoint" \in inv[p].wrote => store = Stored(state)
\* the record holds a string id and a timestamp
WellFormed(r) == r.id # NoId /\ r.t # NoTime

\* C15: a record without its id or its timestamp is dropped and the others
\* are emitted and checkpointed: the cycle does not panic, what it writes
\* holds well-formed records only, and a cycle that has returned has emitted
\* every well-formed record of the page that deduplication keeps
C15_OnlyMalformedDropped ==
  \A p \in Pollers :
    /\ inv[p].pc # "panic"
    /\ "data" \in inv[p].wrote =>
          \A k \in 1..Len(inv[p].recs) : WellFormed(inv[p].recs[k])
    /\ inv[p].pc = "ret" /\ inv[p].ret = "ok" =>
          \A k \in 1..Len(inv[p].page) :
            LET r == inv[p].page[k]
            IN WellFormed(r) /\ ~(inv[p].ck.present /\ r.t = inv[p].ck.ck.NextRecordTime
                                    /\ r.id \in Range(inv[p].ck.ck.LastTimeRecords))
                 => "data" \in inv[p].wrote /\ r \in Range(inv[p].recs)
\* a Start call, or a Stop call, that loses the compare-and-swap changes
\* nothing of the service
RedundantCallsChangeNothing ==
  [][(\/ callsLeft'.start < callsLeft.start /\ csStarted = 1
      \/ callsLeft'.stop < callsLeft.stop /\ csStarted = 0)
       => UNCHANGED <<csStarted, starts, monitors, hb, lst, closes, jobs, instances>>]_vars

\* one monitorTasks and one doHeartbeats goroutine per Start that took effect
WorkersPerStart ==
  \A g \in Generations :
    /\ monitors[g] # "none" <=> g <= starts
    /\ hb[g].pc # "none" <=> g <= starts

Stopped == starts > 0 /\ csStarted = 0

\* the listener goroutines launched so far have left their loop
ListenersExited ==
  \A l \in ListenerIds : l[1] <= starts => lst[l].pc = "exit"

\* C17: under fair scheduling, once Stop has cleared the started flag every
\* partition listener leaves its loop (and stops its reader), unless the
\* process has aborted
C17_ListenersExitAfterStop == [](Stopped => <>(ListenersExited \/ crashed))

\* C19: once Stop has returned and every listener loop has exited, every job
\* on which Start was called has had Stop called
C19_StartedJobsStopped ==
  Stopped /\ ListenersExited /\ (\A g \in Generations : g <= starts => monitors[g] = "done")
    => \A j \in 1..Len(instances) : instances[j].starts > 0 => instances[j].stops > 0

\* C20: a loop launched by an earlier Start that reaches its check of the
\* started flag after a later Start has taken effect leaves the loop: the
\* listener of a partition exits, the heartbeat loop ends
C20_EarlierLoopsExit ==
  [][/\ \A l \in ListenerIds :
          l[1] < starts /\ lst[l].pc = "check" /\ lst'[l].pc # "check"
            => lst'[l].pc = "exit"
     /\ \A g \in Generations :
          g < starts /\ hb[g].pc = "check" /\ hb'[g].pc # "check"
            => hb'[g].pc = "done"]_vars
====
